---------------------------- MODULE Spec2Model ----------------------------
(***************************************************************************)
(* A model of the crawler of crawlerLEAP: crawler.py (normalize_url,       *)
(* get_allowed_extension_from_url, scrape_pdf, write_text_file,            *)
(* crawl_site_selenium, main) and urlconversion.py                         *)
(* (encode_url_to_filename).                                               *)
(*                                                                         *)
(* A Python str is a sequence of one-character strings, so that parsing,   *)
(* re-assembling, lower-casing and replacing are computed character by     *)
(* character.  A Python dict is a sequence of [k, v] records in insertion  *)
(* order.                                                                  *)
(***************************************************************************)
EXTENDS Integers, Sequences, FiniteSets, TLC

VARIABLES
    pc,                \* where main() is: "main", "crawl", "raised", "done"
    seed_urls,         \* main: the list of seeds
    seed_idx,          \* main: position of the for loop over seed_urls
    max_depth,         \* argument of crawl_site_selenium
    max_pages,         \* argument of crawl_site_selenium
    start_domain,      \* crawl_site_selenium: netloc of start_url
    visited,           \* crawl_site_selenium: dict url -> text
    to_visit,          \* crawl_site_selenium: list of (url, depth)
    normalized_urls,   \* crawl_site_selenium: set of normalized urls
    all_scraped,       \* main: dict merged over the seeds
    files,             \* the file store under output_dir: name -> text
    weaviate_objects,  \* main: the exported list
    enqueued,          \* history: every (url, depth) put on to_visit, in order
    dequeued,          \* history: every popped entry and what became of it
    refused,           \* history: why the latest iteration did not admit links
    args,              \* arguments of a call of a pure function
    rets               \* values returned for args

crawlVars == <<pc, seed_urls, seed_idx, max_depth, max_pages, start_domain,
               visited, to_visit, normalized_urls, all_scraped, files,
               weaviate_objects, enqueued, dequeued, refused>>
vars == <<pc, seed_urls, seed_idx, max_depth, max_pages, start_domain,
          visited, to_visit, normalized_urls, all_scraped, files,
          weaviate_objects, enqueued, dequeued, refused, args, rets>>

----------------------------------------------------------------------------
(* Bounds of the model.                                                    *)

\* longest path, in characters, of an input of normalize_url
MaxPathLen == 3
\* most anchors harvested from one rendered page
MaxLinks == 2
\* largest max_pages and max_depth a crawl is started with
MaxPages == 3
MaxDepth == 2
\* an encoded path+query may be this much shorter or longer than the limit
LenSlack == 2

----------------------------------------------------------------------------
(* str operations.                                                         *)

Lower(c) ==
    CASE c = "A" -> "a" [] c = "C" -> "c" [] c = "H" -> "h" [] c = "M" -> "m"
      [] c = "O" -> "o" [] c = "P" -> "p" [] c = "S" -> "s" [] c = "T" -> "t"
      [] c = "X" -> "x" [] c = "F" -> "f" [] c = "D" -> "d" [] c = "Y" -> "y"
      [] c = "B" -> "b" [] c = "U" -> "u" [] c = "Q" -> "q"
      [] OTHER -> c

Upper(c) ==
    CASE c = "a" -> "A" [] c = "c" -> "C" [] c = "h" -> "H" [] c = "m" -> "M"
      [] c = "o" -> "O" [] c = "p" -> "P" [] c = "s" -> "S" [] c = "t" -> "T"
      [] c = "x" -> "X" [] c = "f" -> "F" [] c = "d" -> "D" [] c = "y" -> "Y"
      [] c = "b" -> "B" [] c = "u" -> "U" [] c = "q" -> "Q"
      [] OTHER -> c

\* str.lower()
LowerStr(s) == [i \in 1..Len(s) |-> Lower(s[i])]

UpperStr(s) == [i \in 1..Len(s) |-> Upper(s[i])]

\* s[i:] with a 1-based i
From(s, i) == SubSeq(s, i, Len(s))

\* s[:i-1] with a 1-based i
Upto(s, i) == SubSeq(s, 1, i - 1)

\* s.find(c, start) with 1-based positions: 0 when c does not occur
FindFrom(s, c, start) ==
    LET hits == {i \in start..Len(s) : s[i] = c}
    IN  IF hits = {} THEN 0 ELSE CHOOSE i \in hits : \A j \in hits : i <= j

Find(s, c) == FindFrom(s, c, 1)

\* s.rfind(c) with 1-based positions: 0 when c does not occur
RFind(s, c) ==
    LET hits == {i \in 1..Len(s) : s[i] = c}
    IN  IF hits = {} THEN 0 ELSE CHOOSE i \in hits : \A j \in hits : i >= j

\* s.replace(c, r) for a character c and a str r, computed by halves
RECURSIVE Replace(_, _, _)
Replace(s, c, r) ==
    IF s = <<>> THEN <<>>
    ELSE IF Len(s) = 1 THEN (IF s[1] = c THEN r ELSE s)
    ELSE LET half == Len(s) \div 2
         IN  Replace(SubSeq(s, 1, half), c, r)
             \o Replace(SubSeq(s, half + 1, Len(s)), c, r)

\* s.rstrip(c) taking one character off at most
RStripOnce(s, c) ==
    IF s # <<>> /\ s[Len(s)] = c THEN SubSeq(s, 1, Len(s) - 1) ELSE s

\* s.rstrip(c)
RStrip(s, c) ==
    LET kept == {i \in 1..Len(s) : s[i] # c}
    IN  IF kept = {} THEN <<>>
        ELSE SubSeq(s, 1, CHOOSE i \in kept : \A j \in kept : i >= j)

\* s.endswith(c)
EndsWith(s, c) == s # <<>> /\ s[Len(s)] = c

\* n copies of the character c
Repeat(c, n) == [i \in 1..n |-> c]

----------------------------------------------------------------------------
(* urllib.parse, as far as the program uses it.  No character of the model *)
(* is ';', '[' or ']': the params component is always empty.               *)

Letters == {"a", "b", "c", "d", "f", "h", "m", "o", "p", "q", "s", "t", "u",
            "x", "y", "A", "B", "C", "D", "F", "H", "M", "O", "P", "Q", "S",
            "T", "U", "X", "Y"}

scheme_chars == Letters \cup {"+", "-", "."}

http == <<"h", "t", "t", "p">>
https == <<"h", "t", "t", "p", "s">>

uses_netloc == {<<>>, http, https}

\* _splitnetloc(url, 2): the 1-based position where the netloc ends
NetlocEnd(url) ==
    LET ds == {i \in 3..Len(url) : url[i] \in {"/", "?", "#"}}
    IN  IF ds = {} THEN Len(url) + 1
        ELSE CHOOSE i \in ds : \A j \in ds : i <= j

\* urlsplit, the scheme: url[:i].lower() when a ':' follows scheme characters
SplitScheme(url, i) ==
    IF i > 1 /\ url[1] \in Letters /\ \A k \in 1..(i - 1) : url[k] \in scheme_chars
    THEN [scheme |-> LowerStr(Upto(url, i)), rest |-> From(url, i + 1)]
    ELSE [scheme |-> <<>>, rest |-> url]

\* urlsplit, the netloc: what follows a leading '//' up to the first of / ? #
SplitNetloc(url) ==
    IF Len(url) >= 2 /\ url[1] = "/" /\ url[2] = "/"
    THEN [netloc |-> SubSeq(url, 3, NetlocEnd(url) - 1),
          rest |-> From(url, NetlocEnd(url))]
    ELSE [netloc |-> <<>>, rest |-> url]

\* url.split(c, 1) when c is in url
SplitAt(url, c, i) ==
    IF i > 0 THEN [before |-> Upto(url, i), after |-> From(url, i + 1)]
    ELSE [before |-> url, after |-> <<>>]

SplitQuery(s, n, f) ==
    [scheme |-> s.scheme, netloc |-> n.netloc, fragment |-> f.after,
     path |-> SplitAt(f.before, "?", Find(f.before, "?")).before,
     query |-> SplitAt(f.before, "?", Find(f.before, "?")).after]

SplitRest(s, n) == SplitQuery(s, n, SplitAt(n.rest, "#", Find(n.rest, "#")))

SplitAfterScheme(s) == SplitRest(s, SplitNetloc(s.rest))

\* urlparse(url): scheme, netloc, path, query, fragment
urlparse(url) == SplitAfterScheme(SplitScheme(url, Find(url, ":")))

\* urlunsplit, the first step: '//' and the netloc before the path
WithNetloc(p) ==
    IF \/ p.netloc # <<>>
       \/ (/\ p.scheme # <<>>
           /\ p.scheme \in uses_netloc
           /\ ~(Len(p.path) >= 2 /\ p.path[1] = "/" /\ p.path[2] = "/"))
    THEN <<"/", "/">> \o p.netloc
         \o (IF p.path # <<>> /\ p.path[1] # "/" THEN <<"/">> ELSE <<>>)
         \o p.path
    ELSE p.path

\* ParseResult.geturl(): urlunparse of the components
geturl(p) ==
    (IF p.scheme # <<>> THEN p.scheme \o <<":">> ELSE <<>>)
    \o WithNetloc(p)
    \o (IF p.query # <<>> THEN <<"?">> \o p.query ELSE <<>>)
    \o (IF p.fragment # <<>> THEN <<"#">> \o p.fragment ELSE <<>>)

\* urljoin(base, url) for a url that carries a netloc (an absolute href):
\* returned as written when its scheme is not the base's, re-assembled from
\* its components otherwise
JoinParsed(bscheme, url, parsed) ==
    IF parsed.scheme # bscheme THEN url ELSE geturl(parsed)

urljoin(base, url) == JoinParsed(urlparse(base).scheme, url, urlparse(url))

----------------------------------------------------------------------------
(* crawler.py: get_allowed_extension_from_url and normalize_url.           *)

\* the str forms of the extensions
Ext(e) ==
    CASE e = "html" -> <<"h", "t", "m", "l">>
      [] e = "pdf"  -> <<"p", "d", "f">>
      [] e = "md"   -> <<"m", "d">>
      [] e = "txt"  -> <<"t", "x", "t">>
      [] e = "csv"  -> <<"c", "s", "v">>
      [] e = "xls"  -> <<"x", "l", "s">>
      [] e = "xlsx" -> <<"x", "l", "s", "x">>
      [] e = "doc"  -> <<"d", "o", "c">>
      [] e = "docx" -> <<"d", "o", "c", "x">>

ALLOWED_EXTENSIONS ==
    {Ext(e) : e \in {"html", "pdf", "md", "txt", "csv", "xls", "xlsx", "doc",
                     "docx"}}

\* Python's None, where a str is expected
None == <<"None">>

\* lines 29-33, for the last path segment
AllowedExtension(filename, ext) ==
    IF Find(filename, ".") > 0 /\ ext \in ALLOWED_EXTENSIONS THEN ext ELSE None

ExtensionOf(filename) ==
    AllowedExtension(filename,
                     LowerStr(From(filename, RFind(filename, ".") + 1)))

LastSegment(path) == From(path, RFind(path, "/") + 1)

\* the extension of the last path segment when it is an allowed one
get_allowed_extension_from_url(url) ==
    ExtensionOf(LastSegment(urlparse(url).path))

\* lines 50-54: the path normalize_url gives the result
NormalizedPath(path) ==
    IF path = <<>> THEN <<"/">>
    ELSE IF path # <<"/">> /\ EndsWith(path, "/") THEN RStrip(path, "/")
    ELSE path

\* lines 47-57, for the parsed url
Normalized(parsed) ==
    LowerStr(geturl([parsed EXCEPT !.fragment = <<>>,
                                   !.path = NormalizedPath(parsed.path)]))

normalize_url(url) == Normalized(urlparse(url))

----------------------------------------------------------------------------
(* urlconversion.py: encode_url_to_filename.  The result is                *)
(* [exc |-> "", value |-> the file name] or, when the call raises,         *)
(* [exc |-> the exception, value |-> <<>>].                                *)

\* the length limit of lines 17 and 20
NameLimit == 255

Returned(v) == [exc |-> "", value |-> v]
Raised(e) == [exc |-> e, value |-> <<>>]

\* lines 13-16
JoinPathQuery(path, query) ==
    IF query # <<>> THEN path \o <<"-", "-", "q", "-", "-">> \o query
    ELSE path

\* lines 9-16
PathQuery(parsed) ==
    JoinPathQuery(Replace(parsed.path, "/", <<"-", "-">>),
                  Replace(Replace(parsed.query, "=", <<"~">>), "&", <<"-">>))

\* lines 17-18: hashlib is not imported by urlconversion.py, so evaluating
\* hashlib.md5 raises NameError
HashedPathQuery(path_query) ==
    IF Len(path_query) > NameLimit THEN Raised("NameError")
    ELSE Returned(path_query)

\* line 20: filename[:255]
Truncated(filename) ==
    SubSeq(filename, 1,
           IF Len(filename) < NameLimit THEN Len(filename) ELSE NameLimit)

\* lines 7-8 and 19-22
Filename(parsed, path_query, extension) ==
    IF path_query.exc # "" THEN path_query
    ELSE Returned(Truncated(
            (IF parsed.scheme = https THEN https ELSE http) \o <<"-">>
            \o Replace(Replace(parsed.netloc, ":", <<"_">>), ".", <<"!">>)
            \o <<"-">> \o path_query.value \o <<".">> \o extension))

EncodeParsed(parsed, extension) ==
    Filename(parsed, HashedPathQuery(PathQuery(parsed)), extension)

encode_url_to_filename(url, extension) ==
    EncodeParsed(urlparse(url), extension)

----------------------------------------------------------------------------
(* Calls of the pure functions on inputs drawn from bounded sets.          *)

\* a url written out from its components
Raw(c) ==
    c.scheme \o <<":", "/", "/">> \o c.netloc \o c.path
    \o (IF c.query # <<>> THEN <<"?">> \o c.query ELSE <<>>)
    \o (IF c.fragment # <<>> THEN <<"#">> \o c.fragment ELSE <<>>)

\* the strs over alphabet of length at most n
RECURSIVE StrsUpTo(_, _)
StrsUpTo(alphabet, n) ==
    IF n = 0 THEN {<<>>}
    ELSE LET shorter == StrsUpTo(alphabet, n - 1)
         IN  shorter \cup {Append(s, c) : s \in shorter, c \in alphabet}

HostA == <<"a", ".", "c", "o", "m">>
HostB == <<"b", ".", "c", "o", "m">>
HostSubA == <<"s", "u", "b", ".">> \o HostA

\* paths: empty, or starting with a slash
NormPaths ==
    {p \in StrsUpTo({"/", "x", "X"}, MaxPathLen) : p = <<>> \/ p[1] = "/"}

NormParts ==
    [scheme : {http, https}, netloc : {HostA, HostB}, path : NormPaths,
     query : {<<>>, <<"q">>}, fragment : {<<>>, <<"f">>}]

\* a second url that differs from the url of components c in one respect
Variant(c, how) ==
    CASE how = "same"     -> Raw(c)
      [] how = "fragment" -> Raw([c EXCEPT !.fragment =
                                 IF c.fragment = <<>> THEN <<"f">> ELSE <<>>])
      [] how = "slash"    -> Raw([c EXCEPT !.path = c.path \o <<"/">>])
      [] how = "case"     -> UpperStr(Raw(c))

VariantKinds == {"same", "fragment", "slash", "case"}

\* normalize_url(a), normalize_url(b)
NormCall ==
    /\ args.fn = "normalize_url"
    /\ rets = <<>>
    /\ rets' = <<normalize_url(args.a), normalize_url(args.b)>>
    /\ UNCHANGED <<args, crawlVars>>

\* normalize_url applied to what it returned
NormAgain ==
    /\ args.fn = "normalize_url"
    /\ Len(rets) = 2
    /\ rets' = rets \o <<normalize_url(rets[1]), normalize_url(rets[2])>>
    /\ UNCHANGED <<args, crawlVars>>

\* urls whose encoded path+query is around the length limit: a path of n
\* characters and one slash encodes to n + 2 characters, a query adds 6
EncPaths ==
    {<<>>, <<"/">>, <<"/", "a", "/", "b">>, <<"/", "a", "-", "-", "b">>}
    \cup {<<"/">> \o Repeat("x", n) :
            n \in (NameLimit - 8 - LenSlack)..(NameLimit - 2 + LenSlack)}

EncParts ==
    [scheme : {http, https},
     netloc : {HostA, HostA \o <<":", "8", "0">>},
     path : EncPaths,
     query : {<<>>, <<"q">>, <<"q", "=", "1", "&", "u", "=", "2">>},
     fragment : {<<>>}]

EncCall ==
    /\ args.fn = "encode_url_to_filename"
    /\ rets = <<>>
    /\ rets' = <<encode_url_to_filename(args.url, args.extension)>>
    /\ UNCHANGED <<args, crawlVars>>

NoCall == [fn |-> "none"]

----------------------------------------------------------------------------
(* Python dict: [k, v] records in insertion order.                         *)

Keys(d) == {d[i].k : i \in DOMAIN d}

Get(d, k) == d[CHOOSE i \in DOMAIN d : d[i].k = k].v

\* d[k] = v
Set(d, k, v) ==
    IF k \in Keys(d)
    THEN [i \in DOMAIN d |-> IF d[i].k = k THEN [k |-> k, v |-> v] ELSE d[i]]
    ELSE Append(d, [k |-> k, v |-> v])

\* a merge that keeps the value d already has for a key
UpdateKeepFirst(d, e) == d \o SelectSeq(e, LAMBDA x : x.k \notin Keys(d))

\* d.update(e)
RECURSIVE Update(_, _)
Update(d, e) ==
    IF e = <<>> THEN d ELSE Update(Set(d, Head(e).k, Head(e).v), Tail(e))

----------------------------------------------------------------------------
(* The web a crawl runs on: what the renderer, the PDF download and the    *)
(* file store answer is chosen by the environment at each request.         *)

Url(host, path, fragment) ==
    Raw([scheme |-> https, netloc |-> host, path |-> path, query |-> <<>>,
         fragment |-> fragment])

SeedA == Url(HostA, <<>>, <<>>)
SeedX == Url(HostA, <<"/", "x">>, <<>>)

\* the href values of the anchors a page may carry, all absolute
Hrefs ==
    {Url(HostA, <<"/">>, <<>>),
     Url(HostA, <<"/", "x">>, <<>>),
     Url(HostA, <<"/", "X", "/">>, <<"f">>),
     Url(HostA, <<"/", "y">>, <<>>),
     Url(HostA, <<"/", "d", ".", "p", "d", "f">>, <<>>),
     Url(HostSubA, <<"/", "y">>, <<>>),
     Url(HostB, <<"/", "y">>, <<>>)}

\* the lists of at most n members of S, none twice
RECURSIVE ListsUpTo(_, _)
ListsUpTo(S, n) ==
    IF n = 0 THEN {<<>>}
    ELSE LET shorter == ListsUpTo(S, n - 1)
         IN  shorter \cup UNION {{Append(l, x) :
                                      x \in S \ {l[i] : i \in DOMAIN l}} :
                                   l \in shorter}

\* the anchors of one rendered page, in document order
LinkLists == ListsUpTo(Hrefs, MaxLinks)

\* a second site on the same host: two paths that differ by '/' against
\* '--', and a PDF
SeedAB == Url(HostA, <<"/", "a", "/", "b">>, <<>>)

HrefsDashed ==
    {Url(HostA, <<"/", "a", "/", "b">>, <<>>),
     Url(HostA, <<"/", "a", "-", "-", "b">>, <<>>),
     Url(HostA, <<"/", "d", ".", "p", "d", "f">>, <<>>)}

LinkListsDashed == ListsUpTo(HrefsDashed, MaxLinks)

\* a third site on the same host, crawled from two seeds: the page /x is
\* both linked from the first seed and the second seed itself
HrefsPair ==
    {Url(HostA, <<"/">>, <<>>),
     Url(HostA, <<"/", "x">>, <<>>),
     Url(HostA, <<"/", "d", ".", "p", "d", "f">>, <<>>)}

LinkListsPair == ListsUpTo(HrefsPair, MaxLinks)

SeedPair == <<SeedA, SeedX>>

\* the normalize_url values of the urls of a site that are on host
KeysOn(urls, host) ==
    {normalize_url(u) : u \in {v \in urls : urlparse(v).netloc = host}}

KeysOfA == KeysOn(Hrefs \cup {SeedA}, HostA)
KeysOfDashed == KeysOn(HrefsDashed \cup {SeedAB}, HostA)

\* the keys a crawl can ever admit: those of its site on the seed's host
ScopeKeys == IF seed_urls = <<SeedAB>> THEN KeysOfDashed ELSE KeysOfA

\* the site a crawl runs on is the site of its seeds
PageHrefs ==
    CASE seed_urls = <<SeedAB>> -> HrefsDashed
      [] seed_urls = SeedPair -> HrefsPair
      [] OTHER -> Hrefs

PageLinkLists ==
    CASE seed_urls = <<SeedAB>> -> LinkListsDashed
      [] seed_urls = SeedPair -> LinkListsPair
      [] OTHER -> LinkLists

\* main's seed_urls
SeedLists == {<<SeedA>>}

\* visible text of a rendered page after the clean-up of lines 166-173
PageBodies == {"", "text"}

\* what happens to the download of a PDF
PdfResponses == {"status 404", "exception", "no text", "text"}

Value(kind, msg, url) == [kind |-> kind, msg |-> msg, url |-> url]

\* lines 84-102
scrape_pdf(url, response) ==
    CASE response = "status 404" ->
            Value("error", "Error fetching PDF: 404", <<>>)
      [] response = "exception" ->
            Value("error", "Error processing PDF {url}: {e}", url)
      [] response = "no text" ->
            Value("warning",
                  "Warning: PDF may be image-based or PyMuPDF couldn't extract text.",
                  <<>>)
      [] response = "text" -> Value("text", "pdf text", <<>>)

\* lines 158
LoadErrorMsg(url) ==
    Value("error", "Error loading {current_url} with Selenium: {e}", url)

\* lines 175-176
CleanedText(body) ==
    IF body = ""
    THEN Value("warning",
               "Warning: No visible text extracted from this HTML page.", <<>>)
    ELSE Value("text", body, <<>>)

----------------------------------------------------------------------------
(* crawler.py: crawl_site_selenium and main.                               *)

Entry(url, depth) == [url |-> url, depth |-> depth]

\* line 131 stopping one page short of the bound
LoopConditionEarly == to_visit # <<>> /\ Len(visited) < max_pages - 1

\* line 131 with the bound taken inclusively
LoopConditionInclusive == to_visit # <<>> /\ Len(visited) <= max_pages

\* line 131
LoopCondition == to_visit # <<>> /\ Len(visited) < max_pages

\* line 135 with the bound one level too far
TooDeepOffByOne(current_depth) == current_depth > max_depth + 1

\* line 135
TooDeep(current_depth) == current_depth > max_depth

\* line 206 with a suffix test, which lets subdomains in
SameDomainSuffix(netloc) ==
    /\ Len(netloc) >= Len(start_domain)
    /\ From(netloc, Len(netloc) - Len(start_domain) + 1) = start_domain

\* line 206, for the netloc of next_url
SameDomain(netloc) == netloc = start_domain

\* line 207 without the membership test
NotSeenUnchecked(normalized_next_url, seen) == TRUE

\* line 207
NotSeen(normalized_next_url, seen) == normalized_next_url \notin seen

\* line 208
RoomLeft(vis) == Len(vis) < max_pages

\* line 211 as to_visit.insert(0, ...): a stack
PushFront(queue, entry) == <<entry>> \o queue

\* line 211
Push(queue, entry) == Append(queue, entry)

\* lines 181-184: the name of the file a page is saved to
PageFilename(url, ext) ==
    IF ext # None /\ ext # Ext("pdf") THEN encode_url_to_filename(url, ext)
    ELSE encode_url_to_filename(url, Ext("html"))

\* lines 196-200 and 206: what the loop computes from an anchor alone
Resolved(href, next_url) ==
    [href |-> href,
     next_url |-> next_url,
     normalized_next_url |-> normalize_url(next_url),
     netloc |-> urlparse(next_url).netloc]

\* lines 194-200: the anchors a page at current_url may carry, resolved
Anchors(current_url) ==
    {Resolved(href, urljoin(current_url, href)) : href \in PageHrefs}

Anchor(anchors, href) == CHOOSE a \in anchors : a.href = href

\* lines 206-208: why a link is admitted or not, in the order of the test
Verdict(link, s) ==
    IF ~SameDomain(link.netloc) THEN "domain"
    ELSE IF ~NotSeen(link.normalized_next_url, s.normalized_urls) THEN "seen"
    ELSE IF ~RoomLeft(s.visited) THEN "full"
    ELSE "admitted"

\* an admission that does not record the key of the entry it pushes
AdmitUnrecorded(why, link, depth, s) ==
    IF why = "admitted"
    THEN [s EXCEPT !.to_visit = Push(@, Entry(link.next_url, depth)),
                   !.enqueued = Append(@, Entry(link.next_url, depth))]
    ELSE [s EXCEPT !.refused = @ \cup {why}]

\* lines 206-212; s holds to_visit, normalized_urls, visited and the histories
Admit(why, link, depth, s) ==
    IF why = "admitted"
    THEN [s EXCEPT !.to_visit = Push(@, Entry(link.next_url, depth)),
                   !.normalized_urls = @ \cup {link.normalized_next_url},
                   !.enqueued = Append(@, Entry(link.next_url, depth))]
    ELSE [s EXCEPT !.refused = @ \cup {why}]

AdmitLink(link, depth, s) == Admit(Verdict(link, s), link, depth, s)

\* lines 195-212: the loop over the anchors of a page
RECURSIVE AdmitLinks(_, _, _, _)
AdmitLinks(links, anchors, current_depth, s) ==
    IF links = <<>> THEN s
    ELSE AdmitLinks(Tail(links), anchors, current_depth,
                    AdmitLink(Anchor(anchors, Head(links)),
                              current_depth + 1, s))

Popped(did, fetch, write) ==
    [url |-> Head(to_visit).url, depth |-> Head(to_visit).depth, did |-> did,
     fetch |-> fetch, write |-> write]

mainVars == <<seed_urls, seed_idx, max_depth, max_pages, all_scraped,
              weaviate_objects>>

\* a call that goes on with the set of keys the crawl before it left
CallCrawlKeepSeen ==
    /\ pc = "main"
    /\ seed_idx <= Len(seed_urls)
    /\ LET start_url == seed_urls[seed_idx]
       IN  /\ visited' = <<>>
           /\ to_visit' = <<Entry(start_url, 0)>>
           /\ normalized_urls' = normalized_urls \cup {normalize_url(start_url)}
           /\ start_domain' = urlparse(start_url).netloc
           /\ enqueued' = <<Entry(start_url, 0)>>
    /\ dequeued' = <<>>
    /\ refused' = {}
    /\ pc' = "crawl"
    /\ UNCHANGED <<mainVars, files, args, rets>>

\* main, lines 262-266, and crawl_site_selenium, lines 116-129
CallCrawl ==
    /\ pc = "main"
    /\ seed_idx <= Len(seed_urls)
    /\ LET start_url == seed_urls[seed_idx]
       IN  /\ visited' = <<>>
           /\ to_visit' = <<Entry(start_url, 0)>>
           /\ normalized_urls' = {normalize_url(start_url)}
           /\ start_domain' = urlparse(start_url).netloc
           /\ enqueued' = <<Entry(start_url, 0)>>
    /\ dequeued' = <<>>
    /\ refused' = {}
    /\ pc' = "crawl"
    /\ UNCHANGED <<mainVars, files, args, rets>>

\* lines 131-136: an entry beyond max_depth is dropped
SkipDeep ==
    /\ pc = "crawl"
    /\ LoopCondition
    /\ TooDeep(Head(to_visit).depth)
    /\ to_visit' = Tail(to_visit)
    /\ dequeued' = Append(dequeued, Popped("skipped", "none", "none"))
    /\ refused' = {}
    /\ UNCHANGED <<pc, mainVars, start_domain, visited, normalized_urls, files,
                   enqueued, args, rets>>

\* what became of the download, for the history
Fetch(pdf_text) == IF pdf_text.kind = "error" THEN "failed" ELSE "ok"

\* lines 147-150, once pdf_text is there: the file is written, then the
\* result recorded
SavePdf(current_url, name, pdf_text) ==
    /\ name.exc = ""
    /\ files' = Set(files, name.value, pdf_text)
    /\ visited' = Set(visited, current_url, pdf_text)
    /\ dequeued' = Append(dequeued, Popped("pdf", Fetch(pdf_text), "ok"))

\* lines 131-151: a PDF is downloaded, saved and recorded
ScrapePdf ==
    /\ pc = "crawl"
    /\ LoopCondition
    /\ ~TooDeep(Head(to_visit).depth)
    /\ get_allowed_extension_from_url(Head(to_visit).url) = Ext("pdf")
    /\ \E response \in PdfResponses :
          SavePdf(Head(to_visit).url,
                  encode_url_to_filename(Head(to_visit).url, Ext("pdf")),
                  scrape_pdf(Head(to_visit).url, response))
    /\ to_visit' = Tail(to_visit)
    /\ refused' = {}
    /\ UNCHANGED <<pc, mainVars, start_domain, normalized_urls, enqueued,
                   args, rets>>

\* lines 131-148: encode_url_to_filename or write_text_file raises (the
\* name cannot be computed, the file store refuses the write); nothing
\* catches it, so crawl_site_selenium and main are left by the exception
ScrapePdfRaises ==
    /\ pc = "crawl"
    /\ LoopCondition
    /\ ~TooDeep(Head(to_visit).depth)
    /\ get_allowed_extension_from_url(Head(to_visit).url) = Ext("pdf")
    /\ \E response \in PdfResponses :
          dequeued' = Append(dequeued,
                             Popped("pdf",
                                    Fetch(scrape_pdf(Head(to_visit).url,
                                                     response)),
                                    "failed"))
    /\ to_visit' = Tail(to_visit)
    /\ refused' = {}
    /\ pc' = "raised"
    /\ UNCHANGED <<mainVars, start_domain, visited, normalized_urls, files,
                   enqueued, args, rets>>

\* lines 131-161: driver.get raises
LoadError ==
    /\ pc = "crawl"
    /\ LoopCondition
    /\ ~TooDeep(Head(to_visit).depth)
    /\ get_allowed_extension_from_url(Head(to_visit).url) # Ext("pdf")
    /\ visited' = Set(visited, Head(to_visit).url,
                      LoadErrorMsg(Head(to_visit).url))
    /\ to_visit' = Tail(to_visit)
    /\ dequeued' = Append(dequeued, Popped("page", "failed", "none"))
    /\ refused' = {}
    /\ UNCHANGED <<pc, mainVars, start_domain, normalized_urls, files,
                   enqueued, args, rets>>

\* lines 187-212, once the page is rendered and the file name known
SavePage(name, s, cleaned_text) ==
    /\ files' = Set(files, name.value, cleaned_text)
    /\ visited' = s.visited
    /\ to_visit' = s.to_visit
    /\ normalized_urls' = s.normalized_urls
    /\ enqueued' = s.enqueued
    /\ refused' = s.refused

\* lines 191-212: the result is recorded, then the links are admitted
RecordPage(current_url, current_depth, cleaned_text, links, anchors) ==
    AdmitLinks(links, anchors, current_depth,
               [to_visit |-> Tail(to_visit),
                normalized_urls |-> normalized_urls,
                visited |-> Set(visited, current_url, cleaned_text),
                enqueued |-> enqueued,
                refused |-> {}])

\* lines 163-212, for the text and the anchors the renderer returns
RenderPage(current_url, current_depth, name, anchors) ==
    /\ name.exc = ""
    /\ \E body \in PageBodies, links \in PageLinkLists :
          SavePage(name,
                   RecordPage(current_url, current_depth, CleanedText(body),
                              links, anchors),
                   CleanedText(body))

\* lines 131-212: a page is rendered, saved, recorded and its links admitted
ScrapePage ==
    /\ pc = "crawl"
    /\ LoopCondition
    /\ ~TooDeep(Head(to_visit).depth)
    /\ get_allowed_extension_from_url(Head(to_visit).url) # Ext("pdf")
    /\ RenderPage(Head(to_visit).url, Head(to_visit).depth,
                  PageFilename(Head(to_visit).url,
                               get_allowed_extension_from_url(Head(to_visit).url)),
                  Anchors(Head(to_visit).url))
    /\ dequeued' = Append(dequeued, Popped("page", "ok", "ok"))
    /\ UNCHANGED <<pc, mainVars, start_domain, args, rets>>

\* lines 131-187: the page is rendered, then encode_url_to_filename or
\* write_text_file raises; nothing catches it
ScrapePageRaises ==
    /\ pc = "crawl"
    /\ LoopCondition
    /\ ~TooDeep(Head(to_visit).depth)
    /\ get_allowed_extension_from_url(Head(to_visit).url) # Ext("pdf")
    /\ to_visit' = Tail(to_visit)
    /\ dequeued' = Append(dequeued, Popped("page", "ok", "failed"))
    /\ refused' = {}
    /\ pc' = "raised"
    /\ UNCHANGED <<mainVars, start_domain, visited, normalized_urls, files,
                   enqueued, args, rets>>

\* line 214 and main, line 267: the loop ends and the result is merged
ReturnVisited ==
    /\ pc = "crawl"
    /\ ~LoopCondition
    /\ all_scraped' = Update(all_scraped, visited)
    /\ seed_idx' = seed_idx + 1
    /\ pc' = "main"
    /\ UNCHANGED <<seed_urls, max_depth, max_pages, weaviate_objects,
                   start_domain, visited, to_visit, normalized_urls, files,
                   enqueued, dequeued, refused, args, rets>>

\* main, lines 272-287, leaving out the entries that hold an error str
ExportTextOnly ==
    /\ pc = "main"
    /\ seed_idx > Len(seed_urls)
    /\ weaviate_objects' =
          LET kept == SelectSeq(all_scraped, LAMBDA e : e.v.kind # "error")
          IN  [i \in DOMAIN kept |->
                  [class |-> "WebPage", title |-> "", videoId |-> "",
                   url |-> kept[i].k, transcript |-> kept[i].v]]
    /\ pc' = "done"
    /\ UNCHANGED <<seed_urls, seed_idx, max_depth, max_pages, all_scraped,
                   start_domain, visited, to_visit, normalized_urls, files,
                   enqueued, dequeued, refused, args, rets>>

\* main, lines 272-287
Export ==
    /\ pc = "main"
    /\ seed_idx > Len(seed_urls)
    /\ weaviate_objects' =
          [i \in DOMAIN all_scraped |->
              [class |-> "WebPage", title |-> "", videoId |-> "",
               url |-> all_scraped[i].k, transcript |-> all_scraped[i].v]]
    /\ pc' = "done"
    /\ UNCHANGED <<seed_urls, seed_idx, max_depth, max_pages, all_scraped,
                   start_domain, visited, to_visit, normalized_urls, files,
                   enqueued, dequeued, refused, args, rets>>

CrawlIdle ==
    /\ seed_idx = 1
    /\ start_domain = <<>>
    /\ visited = <<>>
    /\ to_visit = <<>>
    /\ normalized_urls = {}
    /\ all_scraped = <<>>
    /\ files = <<>>
    /\ weaviate_objects = <<>>
    /\ enqueued = <<>>
    /\ dequeued = <<>>
    /\ refused = {}

Init ==
    /\ pc = "main"
    /\ seed_urls \in SeedLists
    /\ max_depth \in -1..MaxDepth
    /\ max_pages \in -1..MaxPages
    /\ CrawlIdle
    /\ args = NoCall
    /\ rets = <<>>

Next ==
    \/ CallCrawl
    \/ SkipDeep
    \/ ScrapePdf
    \/ ScrapePdfRaises
    \/ LoadError
    \/ ScrapePage
    \/ ScrapePageRaises
    \/ ReturnVisited
    \/ Export

Spec == Init /\ [][Next]_vars

\* the same program on the second site
InitDashed ==
    /\ pc = "main"
    /\ seed_urls = <<SeedAB>>
    /\ max_depth \in -1..MaxDepth
    /\ max_pages \in -1..MaxPages
    /\ CrawlIdle
    /\ args = NoCall
    /\ rets = <<>>

SpecDashed == InitDashed /\ [][Next]_vars

\* the same program with two seeds, on the third site
InitPair ==
    /\ pc = "main"
    /\ seed_urls = SeedPair
    /\ max_depth \in -1..MaxDepth
    /\ max_pages \in -1..MaxPages
    /\ CrawlIdle
    /\ args = NoCall
    /\ rets = <<>>

SpecPair == InitPair /\ [][Next]_vars

----------------------------------------------------------------------------
(* Properties of one crawl, checked under Spec.                            *)

Crawling == pc \in {"crawl", "raised"}

Failed(value) == value.kind = "error"

\* C1: for max_pages >= 0 the result map never holds more than max_pages
\* entries, whatever the links and whichever fetches fail.
C1_VisitedAtMostMaxPages == max_pages >= 0 => Len(visited) <= max_pages

\* the map is full, one of its entries is a failed fetch, and entries are
\* still pending
C1_Witness ==
    /\ max_pages >= 2
    /\ Len(visited) = max_pages
    /\ to_visit # <<>>
    /\ \E i \in DOMAIN visited : Failed(visited[i].v)

\* C2: within one crawl no two entries with the same normalize_url value
\* are enqueued, so none is dequeued twice: not when the link is found on a
\* second page, under another spelling, equal to the seed, or after its
\* processing failed.
C2_NoKeyEnqueuedTwice ==
    /\ Cardinality({normalize_url(enqueued[i].url) : i \in DOMAIN enqueued})
          = Len(enqueued)
    /\ Cardinality({normalize_url(dequeued[i].url) : i \in DOMAIN dequeued})
          = Len(dequeued)
    /\ \A i \in DOMAIN enqueued :
          normalize_url(enqueued[i].url) \in normalized_urls

\* /X/#f was enqueued and its rendering failed; the third page carries
\* links, all of them refused as already seen (the seed, /x, /X/#f or the
\* page itself, under any spelling), and nothing was enqueued for them
C2_Witness ==
    /\ Len(enqueued) = 3
    /\ Len(dequeued) = 3
    /\ refused = {"seen"}
    /\ \E i \in DOMAIN visited :
          /\ visited[i].k = Url(HostA, <<"/", "X", "/">>, <<"f">>)
          /\ Failed(visited[i].v)

\* C3: an entry deeper than max_depth is dropped when dequeued: it is not
\* fetched, not written and not recorded in the result map.
C3_NothingBeyondMaxDepth ==
    \A i \in DOMAIN dequeued :
       dequeued[i].depth > max_depth =>
          /\ dequeued[i].did = "skipped"
          /\ dequeued[i].fetch = "none"
          /\ dequeued[i].write = "none"
          /\ dequeued[i].url \notin Keys(visited)

\* an entry one level below max_depth was dropped after pages were scraped
C3_Witness ==
    /\ max_depth >= 1
    /\ Len(visited) >= 2
    /\ \E i \in DOMAIN dequeued :
          /\ dequeued[i].did = "skipped"
          /\ dequeued[i].depth = max_depth + 1

\* C4: a link to another host than the seed's, a subdomain included, is
\* never enqueued nor fetched, so every key of the result map has the
\* seed's host.
C4_OnlySeedHost ==
    Crawling =>
       /\ \A i \in DOMAIN enqueued :
             urlparse(enqueued[i].url).netloc
                = urlparse(seed_urls[seed_idx]).netloc
       /\ \A k \in Keys(visited) :
             urlparse(k).netloc = urlparse(seed_urls[seed_idx]).netloc

\* the second page carried links, all to other hosts: none was enqueued
C4_Witness ==
    /\ pc = "crawl"
    /\ Len(visited) = 2
    /\ Len(enqueued) = 2
    /\ refused = {"domain"}
    /\ to_visit = <<>>

\* C5: the traversal is breadth-first: the depths in to_visit never
\* decrease from head to tail, and entries are dequeued in order of depth.
C5_BreadthFirst ==
    /\ \A i, j \in DOMAIN to_visit :
          i <= j => to_visit[i].depth <= to_visit[j].depth
    /\ \A i, j \in DOMAIN dequeued :
          i <= j => dequeued[i].depth <= dequeued[j].depth
    /\ \A i \in DOMAIN dequeued, j \in DOMAIN to_visit :
          dequeued[i].depth <= to_visit[j].depth

\* entries of two depths wait in the queue, behind dequeued ones
C5_Witness ==
    /\ Len(to_visit) >= 2
    /\ to_visit[1].depth < to_visit[Len(to_visit)].depth
    /\ Len(dequeued) >= 2

\* C6: a failed rendering or a failed PDF download does not abort the
\* crawl: the result map gets an error entry for that url and the loop
\* goes on.
C6_FetchFailureRecorded ==
    \A i \in DOMAIN dequeued :
       dequeued[i].fetch = "failed" =>
          /\ dequeued[i].url \in Keys(visited)
          /\ Failed(Get(visited, dequeued[i].url))

\* a failed rendering is recorded and the loop goes on
C6_Witness ==
    /\ \E i \in DOMAIN dequeued :
          /\ dequeued[i].did = "page"
          /\ dequeued[i].fetch = "failed"
          /\ i < Len(dequeued)

\* C7: when the write of a resource's file fails, the result map still
\* holds the entry of the resource and the traversal goes on.
C7_WriteFailureIsolated ==
    \A i \in DOMAIN dequeued :
       dequeued[i].write = "failed" =>
          /\ dequeued[i].url \in Keys(visited)
          /\ pc # "raised"

\* lines 147 and 181-184: the name of the file of a resource
NameFor(url, ext) ==
    IF ext = Ext("pdf") THEN encode_url_to_filename(url, Ext("pdf"))
    ELSE PageFilename(url, ext)

FileOf(url) == NameFor(url, get_allowed_extension_from_url(url)).value

\* the entries whose file was written
Written == {i \in DOMAIN dequeued : dequeued[i].write = "ok"}

\* C11: within one crawl two distinct processed resources are never
\* written to the same file name, so each written resource has its own
\* file: '/a/b' and '/a--b' get different names.
C11_NoFileClobbered ==
    /\ Len(files) = Cardinality(Written)
    /\ \A i, j \in Written :
          i # j => FileOf(dequeued[i].url) # FileOf(dequeued[j].url)

\* '/a/b' and '/a--b' were both rendered and written
C11_Witness ==
    /\ \E i \in Written : dequeued[i].url = SeedAB
    /\ \E i \in Written :
          dequeued[i].url = Url(HostA, <<"/", "a", "-", "-", "b">>, <<>>)

\* the export holds one record per entry of all_scraped, in its order, with
\* the tag "WebPage" under the key kind
ExportedUnder(kind) ==
    /\ Len(weaviate_objects) = Len(all_scraped)
    /\ \A i \in DOMAIN weaviate_objects :
          /\ DOMAIN weaviate_objects[i]
                = {kind, "title", "videoId", "url", "transcript"}
          /\ weaviate_objects[i][kind] = "WebPage"
          /\ weaviate_objects[i].title = ""
          /\ weaviate_objects[i].videoId = ""
          /\ weaviate_objects[i].url = all_scraped[i].k
          /\ weaviate_objects[i].transcript = all_scraped[i].v

\* C12 as stated: the export holds exactly one record per entry of the
\* merged result map, each with the tag "WebPage" under the key sourceKind,
\* empty title and videoId, the entry's url, and its text as transcript.
C12_ExportUnderSourceKind == pc = "done" => ExportedUnder("sourceKind")

\* C12 amended: the same, with the tag under the key class.
C12_ExportUnderClass == pc = "done" => ExportedUnder("class")

\* an export of several entries, one of them a diagnostic
C12_Witness ==
    /\ pc = "done"
    /\ Len(weaviate_objects) >= 2
    /\ \E i \in DOMAIN weaviate_objects :
          Failed(weaviate_objects[i].transcript)

\* crawl_site_selenium has returned its result to main
Returned_visited == pc \in {"main", "done"} /\ seed_idx > 1

\* C13: a crawl started with a negative max_pages or max_depth ends in a
\* fatal error before any entry is dequeued: it dequeues nothing and never
\* returns a result.
C13_InvalidBoundIsFatal ==
    (max_pages < 0 \/ max_depth < 0) =>
       /\ dequeued = <<>>
       /\ ~Returned_visited

\* with a negative max_depth the seed was dequeued and dropped, and the
\* empty result returned
C13_Witness ==
    /\ max_depth < 0
    /\ max_pages > 0
    /\ Len(dequeued) = 1
    /\ Returned_visited
    /\ visited = <<>>

\* lines 131-144: the loop is about to pop a PDF within max_depth
PdfAtHead ==
    /\ pc = "crawl"
    /\ LoopCondition
    /\ ~TooDeep(Head(to_visit).depth)
    /\ get_allowed_extension_from_url(Head(to_visit).url) = Ext("pdf")

\* C14: processing a PDF records exactly one result entry, the extracted
\* text or the fixed warning when there is no text, and leaves the rest of
\* the queue and the set of normalized urls unchanged: a PDF adds no link.
C14_PdfIsLeaf ==
    [][PdfAtHead =>
          /\ to_visit' = Tail(to_visit)
          /\ normalized_urls' = normalized_urls
          /\ enqueued' = enqueued
          /\ visited' \in {Append(visited,
                                  [k |-> Head(to_visit).url,
                                   v |-> scrape_pdf(Head(to_visit).url, r)]) :
                              r \in PdfResponses}]_vars

\* a PDF without text was processed while entries were pending behind it
C14_Witness ==
    /\ to_visit # <<>>
    /\ \E i \in DOMAIN visited :
          /\ get_allowed_extension_from_url(visited[i].k) = Ext("pdf")
          /\ visited[i].v.kind = "warning"

\* C15: when a crawl has returned, every entry of the result map, the
\* diagnostics of failed fetches included, has a file under the output
\* directory that holds the entry's value.
C15_EveryEntryPersisted ==
    Returned_visited =>
       \A i \in DOMAIN visited :
          /\ FileOf(visited[i].k) \in Keys(files)
          /\ Get(files, FileOf(visited[i].k)) = visited[i].v

\* a crawl returned a page, and the diagnostic of a page that did not load
C15_Witness ==
    /\ Returned_visited
    /\ \E i, j \in DOMAIN dequeued :
          /\ dequeued[i].did = "page" /\ dequeued[i].fetch = "ok"
          /\ dequeued[j].did = "page" /\ dequeued[j].fetch = "failed"

\* a crawl was started and its loop has been left, by return or by an
\* exception
CrawlOver == pc # "crawl" /\ enqueued # <<>>

NoFetchFailed == \A i \in DOMAIN dequeued : dequeued[i].fetch # "failed"

\* C16: when max_pages is not reached and no fetch fails, the crawl
\* processes every in-scope key within max_depth links of the seed: once
\* the crawl is over every admitted link is accounted for, an entry
\* enqueued at depth <= max_depth is in the result map and one enqueued
\* deeper is not.
C16_ReachableProcessed ==
    (CrawlOver /\ Len(visited) < max_pages /\ NoFetchFailed) =>
       /\ "full" \notin refused
       /\ normalized_urls
             = {normalize_url(enqueued[i].url) : i \in DOMAIN enqueued}
       /\ \A i \in DOMAIN enqueued :
             enqueued[i].depth <= max_depth
                <=> enqueued[i].url \in Keys(visited)

\* a crawl returned below max_pages, having processed an entry at
\* max_depth and dropped one at max_depth + 1
C16_Witness ==
    /\ Returned_visited
    /\ Len(visited) < max_pages
    /\ NoFetchFailed
    /\ max_depth >= 1
    /\ \E i, j \in DOMAIN dequeued :
          /\ dequeued[i].depth = max_depth /\ dequeued[i].did # "skipped"
          /\ dequeued[j].depth = max_depth + 1 /\ dequeued[j].did = "skipped"

\* C17: whatever the links between the urls, cycles included, and whatever
\* max_depth and max_pages, the loop of a crawl ends, given that each call
\* made in it returns.
\* Every iteration of the loop pops one entry, and an entry is pushed only
\* for a key of the seed's host not seen before: the iterations made and
\* the entries waiting are never more than the site has such keys.
C17_CrawlTerminates ==
    Crawling => Len(dequeued) + Len(to_visit) <= Cardinality(ScopeKeys)

\* every key of the site has been enqueued, on pages that link back to the
\* seed or to themselves
C17_Witness ==
    /\ Crawling
    /\ Len(dequeued) + Len(to_visit) = Cardinality(ScopeKeys)
    /\ "seen" \in refused

\* C18: for max_pages >= 0, when the loop has been left normally the queue
\* is empty or the result map holds exactly max_pages entries: the loop
\* does not stop with entries waiting and room left.
C18_LoopExit ==
    (max_pages >= 0 /\ Returned_visited) =>
       to_visit = <<>> \/ Len(visited) = max_pages

\* the loop was left at max_pages with entries still waiting
C18_Witness ==
    /\ Returned_visited
    /\ max_pages >= 2
    /\ Len(visited) = max_pages
    /\ to_visit # <<>>

\* C19 as stated: the links of a page processed at depth = max_depth are
\* not enqueued, so (for max_depth >= 0) no entry deeper than max_depth is
\* ever in the queue.
C19_NoEntryBeyondMaxDepth ==
    max_depth >= 0 =>
       \A i \in DOMAIN to_visit : to_visit[i].depth <= max_depth

\* C19 amended: links are admitted whatever the depth of their page, one
\* level below it, and only processed pages have their links harvested: no
\* entry other than the seed is ever enqueued deeper than max_depth + 1.
C19_NoEntryBeyondMaxDepthPlusOne ==
    /\ \A i \in DOMAIN enqueued :
          i = 1 \/ enqueued[i].depth <= max_depth + 1
    /\ \A i \in DOMAIN to_visit :
          to_visit[i].depth = 0 \/ to_visit[i].depth <= max_depth + 1

\* a link of a page at depth = max_depth waits in the queue at depth
\* max_depth + 1, its key in normalized_urls
C19_Witness ==
    /\ max_depth >= 1
    /\ \E i \in DOMAIN to_visit :
          /\ to_visit[i].depth = max_depth + 1
          /\ normalize_url(to_visit[i].url) \in normalized_urls

\* the urls of the entries that were dequeued and not dropped, in order
ProcessedUrls ==
    LET kept == SelectSeq(dequeued, LAMBDA e : e.did # "skipped")
    IN  [i \in DOMAIN kept |-> kept[i].url]

\* C21: the result map of a crawl only grows: every processed entry
\* inserts one entry under the raw url that was dequeued, a key not in the
\* map before, and no entry is deleted, so the keys of the map are the
\* urls of the processed entries, one each and in their order.
C21_OneEntryPerProcessed ==
    Crawling => [i \in DOMAIN visited |-> visited[i].k] = ProcessedUrls

\* three entries were processed, one of them reached under the spelling
\* /X/#f, which is its key in the map
C21_Witness ==
    /\ Len(visited) = 3
    /\ Len(ProcessedUrls) = 3
    /\ Url(HostA, <<"/", "X", "/">>, <<"f">>) \in Keys(visited)

----------------------------------------------------------------------------
(* Properties of a run over two seeds, checked under SpecPair.             *)

\* a step that returns from a crawl and merges its result
Merging == pc = "crawl" /\ pc' = "main"

\* a step that builds the export
Exporting == pc = "main" /\ pc' = "done"

\* the value the right-biased union of d and e holds for k
RightBiased(d, e, k) == IF k \in Keys(e) THEN Get(e, k) ELSE Get(d, k)

\* C22: merging a seed's result map into the overall map is a right-biased
\* keyed union: the keys afterwards are those of both maps, one entry
\* each, a key of the new result map carries the new value and any other
\* key keeps its value; the export carries the value the merged map holds.
C22_MergeIsRightBiased ==
    [][/\ Merging =>
           /\ Keys(all_scraped') = Keys(all_scraped) \cup Keys(visited)
           /\ Len(all_scraped') = Cardinality(Keys(all_scraped'))
           /\ \A k \in Keys(all_scraped') :
                  Get(all_scraped', k) = RightBiased(all_scraped, visited, k)
       /\ Exporting =>
           /\ {o.url : o \in {weaviate_objects'[i] :
                                  i \in DOMAIN weaviate_objects'}}
                 = Keys(all_scraped)
           /\ \A i \in DOMAIN weaviate_objects' :
                  weaviate_objects'[i].transcript
                    = Get(all_scraped, weaviate_objects'[i].url)]_vars

\* /x was scraped with text by the first crawl and failed to load in the
\* second: the export carries the second crawl's error str for it
C22_Witness ==
    /\ pc = "done"
    /\ \E i \in DOMAIN files : files[i].v.kind = "text"
                                /\ files[i].k = PageFilename(SeedX, None).value
    /\ SeedX \in Keys(visited)
    /\ Failed(Get(visited, SeedX))
    /\ \E i \in DOMAIN weaviate_objects :
          /\ weaviate_objects[i].url = SeedX
          /\ Failed(weaviate_objects[i].transcript)

\* C23: the queue, the set of seen keys and the result map are created
\* fresh by each seed crawl and nothing of them is carried over: the set
\* holds the keys of the entries this crawl enqueued and no other, the
\* queue holds the entries this crawl enqueued and has not dequeued, and
\* the map holds only urls this crawl dequeued; so a url processed by one
\* seed's crawl can be processed again by the next.
C23_FreshPerSeed ==
    Crawling =>
       /\ normalized_urls
            = {normalize_url(enqueued[i].url) : i \in DOMAIN enqueued}
       /\ to_visit = SubSeq(enqueued, Len(dequeued) + 1, Len(enqueued))
       /\ Keys(visited) \subseteq {dequeued[i].url : i \in DOMAIN dequeued}

\* /x, a link of the first seed that the first crawl processed, is
\* processed again by the crawl of the second seed
C23_Witness ==
    /\ pc = "crawl"
    /\ seed_idx = 2
    /\ SeedX \in Keys(all_scraped)
    /\ SeedX \in Keys(visited)
    /\ Len(visited) > 1

\* C24: in every state of a crawl the canonical key of every entry in the
\* queue and of every key of the result map is in the set of seen keys,
\* and within a crawl no step takes a member out of the set.
C24_KeysAreSeen ==
    /\ [](Crawling =>
            /\ \A i \in DOMAIN to_visit :
                   normalize_url(to_visit[i].url) \in normalized_urls
            /\ \A k \in Keys(visited) : normalize_url(k) \in normalized_urls)
    /\ [][pc = "crawl" => normalized_urls \subseteq normalized_urls']_vars

\* the second crawl has recorded its seed /x, holds an entry in its queue,
\* and its set has the three keys of the site
C24_Witness ==
    /\ pc = "crawl"
    /\ seed_idx = 2
    /\ Keys(visited) = {SeedX}
    /\ to_visit # <<>>
    /\ Cardinality(normalized_urls) = 3

\* the result map holds as many entries as max_pages allows
Full == pc = "crawl" /\ Len(visited) >= max_pages

\* C25: once the result map holds max_pages entries the crawl does nothing
\* more, whatever the queue still holds: no entry is dequeued or fetched,
\* nothing is recorded or written and no link is admitted; the step that
\* fills the map admits no link either.
C25_NothingAfterMaxPages ==
    /\ [][Full => /\ dequeued' = dequeued
                  /\ visited' = visited
                  /\ files' = files
                  /\ to_visit' = to_visit
                  /\ enqueued' = enqueued
                  /\ normalized_urls' = normalized_urls]_vars
    /\ [][pc = "crawl" /\ Len(visited') >= max_pages
             => enqueued' = enqueued]_vars

\* two entries are recorded with max_pages 2 and an entry is still waiting
C25_Witness ==
    /\ Returned_visited
    /\ max_pages = 2
    /\ Len(visited) = 2
    /\ to_visit # <<>>

----------------------------------------------------------------------------
(* The pure functions called on their own: no crawl runs.                  *)

NoCrawl ==
    /\ pc = "call"
    /\ seed_urls = <<>>
    /\ max_depth = 0
    /\ max_pages = 0
    /\ CrawlIdle

NormInit ==
    /\ NoCrawl
    /\ \E c \in NormParts, how \in VariantKinds :
          args = [fn |-> "normalize_url", how |-> how,
                  a |-> Raw(c), b |-> Variant(c, how)]
    /\ rets = <<>>

NormNext == NormCall \/ NormAgain

SpecNorm == NormInit /\ [][NormNext]_vars

EncInit ==
    /\ NoCrawl
    /\ \E c \in EncParts, e \in {"html", "pdf", "txt"} :
          args = [fn |-> "encode_url_to_filename", url |-> Raw(c),
                  extension |-> Ext(e)]
    /\ rets = <<>>

EncNext == EncCall

SpecEnc == EncInit /\ [][EncNext]_vars

----------------------------------------------------------------------------
(* Properties of the pure functions, checked under SpecNorm and SpecEnc.   *)

\* C8: normalize_url is idempotent: applied to its own result it returns
\* that result, also for paths made of slashes only.
C8_NormalizeIdempotent ==
    Len(rets) = 4 => rets[3] = rets[1] /\ rets[4] = rets[2]

\* normalize_url was applied twice to a url whose path is slashes only
C8_Witness ==
    /\ Len(rets) = 4
    /\ urlparse(args.a).path = <<"/", "/">>

\* C9: two urls that differ only by the fragment, by one trailing slash on
\* the path or by letter case have the same normalize_url value.
C9_VariantsCollapse == Len(rets) >= 2 => rets[1] = rets[2]

\* a url and the same url with one more trailing slash were normalized
C9_Witness ==
    /\ Len(rets) >= 2
    /\ args.how = "slash"
    /\ urlparse(args.a).path = <<"/">>

Canonical(parsed, path) ==
    LowerStr(parsed.scheme \o <<":", "/", "/">> \o parsed.netloc \o path
             \o (IF parsed.query # <<>> THEN <<"?">> \o parsed.query
                 ELSE <<>>))

\* one trailing slash taken off a path other than '/'
StripOne(path) ==
    IF path = <<>> THEN <<"/">>
    ELSE IF path # <<"/">> /\ path[Len(path)] = "/"
         THEN SubSeq(path, 1, Len(path) - 1)
    ELSE path

\* every trailing slash taken off a path other than '/'
StripAll(path) ==
    IF path = <<>> THEN <<"/">>
    ELSE IF path = <<"/">> THEN path
    ELSE SubSeq(path, 1,
                Cardinality({i \in 1..Len(path) :
                               \E j \in i..Len(path) : path[j] # "/"}))

CanonicalOne(url) == Canonical(urlparse(url), StripOne(urlparse(url).path))

CanonicalAll(url) == Canonical(urlparse(url), StripAll(urlparse(url).path))

\* the path of url has a character other than '/'
HasSegment(url) == \E i \in DOMAIN urlparse(url).path : urlparse(url).path[i] # "/"

\* C20 as stated: normalize_url removes the fragment, turns an empty path
\* into '/', removes exactly one trailing '/' from a path other than '/',
\* and lower-cases the result; stated here for the urls whose path is not
\* made of slashes only.
C20_StripsOneSlash ==
    Len(rets) >= 2 =>
       /\ HasSegment(args.a) => rets[1] = CanonicalOne(args.a)
       /\ HasSegment(args.b) => rets[2] = CanonicalOne(args.b)

\* C20 amended: the same, but every trailing '/' is removed from a path
\* other than '/', so that a path of slashes only becomes empty.
C20_StripsAllSlashes ==
    Len(rets) >= 2 =>
       rets[1] = CanonicalAll(args.a) /\ rets[2] = CanonicalAll(args.b)

\* normalize_url was called on a url that ends in a fragment and whose path
\* ends in two slashes after a letter
C20_Witness ==
    /\ Len(rets) >= 2
    /\ urlparse(args.a).fragment # <<>>
    /\ Len(urlparse(args.b).path) >= 3
    /\ urlparse(args.b).path[1] = "/"
    /\ urlparse(args.b).path[2] \in {"x", "X"}
    /\ StripOne(urlparse(args.b).path) # StripAll(urlparse(args.b).path)

============================================================================
